---------------------------- MODULE Spec2Model ----------------------------
(***************************************************************************)
(* A model of src/main.py: a text-mode blackjack session.                  *)
(*                                                                         *)
(* The program is sequential and stops only at its prompts, so an action   *)
(* is everything the program does between two prompts:                     *)
(*   PlaceBet     answer to the bet prompt (lines 301-309), up to the      *)
(*                first decision prompt or the natural blackjack           *)
(*   Stand, Hit, DoubleDown, Split                                         *)
(*                answer to the decision prompt (line 340), through the    *)
(*                rest of that loop iteration (lines 342-407) and the top  *)
(*                of the next one (lines 316-338)                          *)
(*   PlayAgain, Quit   answer to the prompt between rounds (line 412)      *)
(* A pop from an empty deck ends the program by an exception ("crash").    *)
(*                                                                         *)
(* Spec follows the first round, Session several rounds, Round one round   *)
(* with no cap on its decisions; RoundAnswered is Round with every prompt  *)
(* answered.  The two pure methods are also called on their own: Values    *)
(* calls hand_value on every short hand (CallHandValue), Removals calls    *)
(* remove_chips on small stacks (CallRemoveChips).                         *)
(*                                                                         *)
(* Chips carry a value and a colour that the set-up ties to the value, so  *)
(* a stack of chips is modelled as the number of chips of each value.      *)
(* The deck is shuffled uniformly and only ever popped, so it is modelled  *)
(* as the set of cards not yet dealt, any of which may be on top.  The     *)
(* shuffle is an input, like the answers to the prompts: an action takes   *)
(* the cards it pops, topmost first (its parameter top), and accepts any   *)
(* cards left in the deck.  Spec and Session follow the shuffles that put   *)
(* on top cards of the few highest ranks, of each rank one of the TopSuits *)
(* lowest suits left (Top).  Round follows the shuffles that give at every *)
(* pop a card of the lowest rank left or, among the first pops, of the     *)
(* highest rank left (RoundTop), so that the deck has a card on top for as *)
(* long as it holds one and a round is followed to its end.                *)
(***************************************************************************)
EXTENDS Integers, Sequences, FiniteSets

VARIABLES
    pc,                 \* "bet", "turn", "again", "quit": the prompt waited
                        \* at; "crash": the program ended by an exception;
                        \* "value", "valued", "remove", "removed": before
                        \* and after a method called on its own
    round,              \* number of calls of game() so far
    chips_player,       \* player.chips
    chips_dealer,       \* dealer.chips
    hand,               \* player.hand
    dealer_hand,        \* dealer.hand
    split_hand,         \* player.split_hand
    deck,               \* the cards still in deck
    first_move,         \* game(): first_move
    player_bet,         \* game(): player_bet
    player_bet_chips,   \* game(): player_bet_chips
    placed_bet,         \* the amount answered at the bet prompt of this round
    shown,              \* the two totals print_chips showed at round start
    chosen,             \* the decisions echoed by prompt_choice in this round
    results,            \* one record per hand this round has finished
    dealt,              \* the cards popped in this round, in order
    arg,                \* the arguments of a call made on its own
    ret                 \* what that call returned

vars == <<pc, round, chips_player, chips_dealer, hand, dealer_hand, split_hand,
          deck, first_move, player_bet, player_bet_chips, placed_bet, shown,
          chosen, results, dealt, arg, ret>>

---------------------------------------------------------------------------
(* Program constants and bounds *)

\* Suits per rank (line 87).
NumSuits == 4

\* Ranks (line 86).
NumRanks == 13

\* Cards of the program's deck.
DeckSize == NumSuits * NumRanks

\* Rounds of one session explored by Session.
MaxRounds == 2

\* Decisions (stand, hit, double down, split) explored in one round.
MaxDecisions == 3

\* The shuffles followed by Spec put on top cards of this many of the
\* highest ranks (queen, king, ace) ...
TopRanks == 3

\* ... those followed by Session of this many (king, ace) ...
SessionTopRanks == 2

\* ... and of each rank one of this many of the lowest suits left in the deck.
TopSuits == 1

\* The shuffles followed by Round give at every pop a card of one of this
\* many of the lowest ranks left in the deck (two, then three, ...) ...
LowRanks == 1

\* ... or of one of this many of the highest ranks left in the deck (ace,
\* then king, ...) ...
HighRanks == 1

\* ... the latter at the first this many pops of the round only.
HighPops == 10

\* Most chips of value 1, and of value 5, in a stack given to remove_chips on
\* its own.
MaxChips == 5

\* Longest hand given to hand_value on its own.
MaxHandLen == 4

\* Bets offered in Round.
RoundBets == {5}

\* Amounts answered at the bet prompt: minimum, a custom amount, maximum.
Bets == {5, 7, 500}

\* Amounts answered at the bet prompt in the multi-round specification.
SessionBets == {5, 500}

---------------------------------------------------------------------------
(* Cards and hands *)

Card(r, s) == [rank |-> r, suit |-> s]

\* Deck.random(): one card of every rank and suit; the order is left open.
DeckOf(ranks) == {Card(r, s) : r \in ranks, s \in 0 .. (NumSuits - 1)}

\* The ranks of the program's deck (line 85).
AllRanks == 0 .. (NumRanks - 1)

\* Deck.pop on deck d: the cards that can be on top, which after the shuffle
\* of line 90 is any card left.  A pop from the empty deck is the
\* AttributeError of crash.
pop(d) == d

\* top is what a step pops from deck d, topmost first: each card is on top
\* of what the pops before it left.
OnTop(d, top) ==
    \A i \in 1 .. Len(top) : top[i] \in pop(d \ {top[j] : j \in 1 .. (i - 1)})

\* The cards on top of deck d in the shuffles followed: of the n highest
\* ranks.
Top(d, n) ==
    {c \in pop(d) :
        /\ c.rank >= NumRanks - n
        /\ Cardinality({i \in 0 .. (c.suit - 1) : Card(c.rank, i) \in pop(d)})
              < TopSuits}

\* The top k cards of deck d, topmost first, in the shuffles followed.
RECURSIVE Tops(_, _, _)
Tops(d, k, n) ==
    IF k = 0 THEN {<< >>}
    ELSE UNION {{<< c >> \o t : t \in Tops(d \ {c}, k - 1, n)} :
                c \in Top(d, n)}

\* The ranks that still have a card in deck d.
RanksLeft(d) == {c.rank : c \in d}

\* The ranks on top in the shuffles Round follows, of the ranks left and
\* after n pops: the LowRanks lowest and, at the first HighPops pops, the
\* HighRanks highest.
RanksOnTop(left, n) ==
    {r \in left : \/ Cardinality({q \in left : q < r}) < LowRanks
                  \/ /\ n < HighPops
                     /\ Cardinality({q \in left : q > r}) < HighRanks}

\* The cards on top of deck d in the shuffles Round follows: of a rank on
\* top, one of the TopSuits lowest suits left.  A card is on top for as
\* long as the deck holds one.
RoundTop(d) ==
    UNION {{Card(r, i) : i \in {i \in 0 .. (NumSuits - 1) :
                /\ Card(r, i) \in pop(d)
                /\ Cardinality({j \in 0 .. (i - 1) : Card(r, j) \in pop(d)})
                      < TopSuits}} :
           r \in RanksOnTop(RanksLeft(d), DeckSize - Cardinality(d))}

\* The top k cards of deck d, topmost first, in the shuffles Round follows.
RECURSIVE RoundTops(_, _)
RoundTops(d, k) ==
    IF k = 0 THEN {<< >>}
    ELSE UNION {{<< c >> \o t : t \in RoundTops(d \ {c}, k - 1)} :
                c \in RoundTop(d)}

\* The cards a decision pops, in the shuffles Round follows.
RoundShuffled(d) ==
    RoundTops(d, 0) \cup RoundTops(d, 1) \cup RoundTops(d, 2)

\* The cards a decision pops, in the shuffles followed: none, one (the card
\* of a hit, a double down or a split, or the card of the switch to the
\* split hand) or two.
Shuffled(d, n) == Tops(d, 0, n) \cup Tops(d, 1, n) \cup Tops(d, 2, n)

is_face_card(c) == c.rank > 8

rank_long_str(c) ==
    << "two", "three", "four", "five", "six", "seven", "eight",
       "nine", "ten", "jack", "queen", "king", "ace" >>[c.rank + 1]

\* add_card with nothing added for a jack, queen or king.
add_card_face_nothing(total_card_value, c) ==
    IF is_face_card(c)
    THEN IF rank_long_str(c) = "ace"
         THEN IF total_card_value + 11 > 21
              THEN total_card_value + 1
              ELSE total_card_value + 11
         ELSE total_card_value
    ELSE total_card_value + c.rank + 2

\* add_card with every Ace counted 11.
add_card_ace_eleven(total_card_value, c) ==
    IF is_face_card(c)
    THEN IF rank_long_str(c) = "ace"
         THEN total_card_value + 11
         ELSE total_card_value + 10
    ELSE total_card_value + c.rank + 2

\* add_card with the Ace test of line 172 made 'at least 21'.
add_card_ace_one_at_ten(total_card_value, c) ==
    IF is_face_card(c)
    THEN IF rank_long_str(c) = "ace"
         THEN IF total_card_value + 11 >= 21
              THEN total_card_value + 1
              ELSE total_card_value + 11
         ELSE total_card_value + 10
    ELSE total_card_value + c.rank + 2

\* One iteration of the loop of hand_value: the new running total.
add_card(total_card_value, c) ==
    IF is_face_card(c)
    THEN IF rank_long_str(c) = "ace"
         THEN IF total_card_value + 11 > 21
              THEN total_card_value + 1
              ELSE total_card_value + 11
         ELSE total_card_value + 10
    ELSE total_card_value + c.rank + 2

RECURSIVE hand_value(_)
hand_value(h) ==
    IF h = << >> THEN 0
    ELSE add_card(hand_value(SubSeq(h, 1, Len(h) - 1)), h[Len(h)])

\* player.split_hand is None or a one-card list; None is the empty sequence.
None == << >>

---------------------------------------------------------------------------
(* Chips *)

\* The chip values, in the order remove_chips sorts them.
ChipValues == << 1000, 500, 100, 25, 5, 1 >>

Denoms == {ChipValues[i] : i \in 1 .. Len(ChipValues)}

NoChips == [d \in Denoms |-> 0]

PlayerStart == [d \in Denoms |->
    CASE d = 5 -> 20 [] d = 25 -> 8 [] d = 100 -> 2 [] OTHER -> 0]

DealerStart == [d \in Denoms |->
    CASE d = 1 -> 100 [] d = 5 -> 20 [] d = 25 -> 12 [] d = 100 -> 5
      [] d = 500 -> 2 [] d = 1000 -> 1]

RECURSIVE TotalFrom(_, _)
TotalFrom(chips, i) ==
    IF i > Len(ChipValues) THEN 0
    ELSE chips[ChipValues[i]] * ChipValues[i] + TotalFrom(chips, i + 1)

\* print_chips: total_value.
Total(chips) == TotalFrom(chips, 1)

\* list concatenation of two stacks
AddChips(a, b) == [d \in Denoms |-> a[d] + b[d]]

Min(a, b) == IF a <= b THEN a ELSE b

\* Picked over the stack sorted by increasing value (line 130 without
\* reverse=True).
RECURSIVE Picked_ascending(_, _, _)
Picked_ascending(chips, remaining_amount, i) ==
    IF i > Len(ChipValues) THEN NoChips
    ELSE LET d == ChipValues[Len(ChipValues) - i + 1]
             k == Min(chips[d], remaining_amount \div d)
         IN  [Picked_ascending(chips, remaining_amount - k * d, i + 1)
                EXCEPT ![d] = k]

\* Picked with remaining_amount never reduced (line 135 left out).
Picked_not_reduced(chips, remaining_amount, i) ==
    [d \in Denoms |-> Min(chips[d], remaining_amount \div d)]

\* The loop of remove_chips over the sorted stack.  Chips of one value are
\* adjacent in it and each is taken while its value is at most what remains,
\* so of the chips of value d, min(number held, remaining \div d) are taken.
RECURSIVE Picked(_, _, _)
Picked(chips, remaining_amount, i) ==
    IF i > Len(ChipValues) THEN NoChips
    ELSE LET d == ChipValues[i]
             k == Min(chips[d], remaining_amount \div d)
         IN  [Picked(chips, remaining_amount - k * d, i + 1) EXCEPT ![d] = k]

\* remove_chips: the chips returned (new_stack) and the chips left (chips).
remove_chips(chips, amount) ==
    LET new_stack == Picked(chips, amount, 1)
    IN  [new_stack |-> new_stack,
         chips     |-> [d \in Denoms |-> chips[d] - new_stack[d]]]

\* math.ceil(player_bet * 3 / 2)
win_amount(bet) == IF (bet * 3) % 2 = 0 THEN (bet * 3) \div 2
                   ELSE (bet * 3) \div 2 + 1

---------------------------------------------------------------------------
(* The state as one record, and the steps of game() on it *)

Cur == [pc |-> pc, round |-> round,
        chips_player |-> chips_player, chips_dealer |-> chips_dealer,
        hand |-> hand, dealer_hand |-> dealer_hand, split_hand |-> split_hand,
        deck |-> deck, first_move |-> first_move,
        player_bet |-> player_bet, player_bet_chips |-> player_bet_chips,
        placed_bet |-> placed_bet, shown |-> shown,
        chosen |-> chosen, results |-> results, dealt |-> dealt,
        arg |-> arg, ret |-> ret]

Becomes(n) ==
    /\ pc' = n.pc
    /\ round' = n.round
    /\ chips_player' = n.chips_player
    /\ chips_dealer' = n.chips_dealer
    /\ hand' = n.hand
    /\ dealer_hand' = n.dealer_hand
    /\ split_hand' = n.split_hand
    /\ deck' = n.deck
    /\ first_move' = n.first_move
    /\ player_bet' = n.player_bet
    /\ player_bet_chips' = n.player_bet_chips
    /\ placed_bet' = n.placed_bet
    /\ shown' = n.shown
    /\ chosen' = n.chosen
    /\ results' = n.results
    /\ dealt' = n.dealt
    /\ arg' = n.arg
    /\ ret' = n.ret

\* What the program reports and does when a hand is finished.
\*   outcome   the branch taken      hand     the hand finished
\*   pv, dv    the values compared   doubled  finished by a double down
\*   bet       player_bet            escrow   value of player_bet_chips
\*   returned  value of the bet chips put back on the player's stack
\*   paid      value of the chips taken from the dealer for the player
Result(s, outcome, returned, paid) ==
    [outcome |-> outcome, hand |-> s.hand,
     pv |-> hand_value(s.hand), dv |-> hand_value(s.dealer_hand),
     doubled |-> (s.chosen # << >> /\ s.chosen[Len(s.chosen)] = "double down"),
     bet |-> s.player_bet, escrow |-> Total(s.player_bet_chips),
     returned |-> returned, paid |-> paid]

\* deal_you with the card left in the deck.
deal_you_card_kept(s, c) ==
    [s EXCEPT !.hand = Append(@, c), !.dealt = Append(@, c)]

\* Dealer.deal(deck, player, 'you') when the popped card is c.
deal_you(s, c) ==
    [s EXCEPT !.hand = Append(@, c), !.deck = @ \ {c},
              !.dealt = Append(@, c)]

\* Dealer.deal(deck, self, 'himself') when the popped card is c.
deal_himself(s, c) ==
    [s EXCEPT !.dealer_hand = Append(@, c), !.deck = @ \ {c},
              !.dealt = Append(@, c)]

deal_initial(s, c1, c2, c3, c4) ==
    deal_himself(deal_you(deal_himself(deal_you(s, c1), c2), c3), c4)

\* IsBlackjack without the first-move flag: a 21 counts at any loop iteration.
IsBlackjackAnyMove(fm, h) == hand_value(h) = 21

\* The test of line 321.
IsBlackjack(fm, h) == fm /\ hand_value(h) = 21

\* Lines 321-329: the natural blackjack is paid and the round is over.
blackjack(s) ==
    LET win == remove_chips(s.chips_dealer, win_amount(s.player_bet))
    IN  [s EXCEPT
           !.chips_dealer = win.chips,
           !.chips_player =
               AddChips(@, AddChips(s.player_bet_chips, win.new_stack)),
           !.results = Append(@, Result(s, "blackjack",
                          Total(s.player_bet_chips), Total(win.new_stack))),
           !.pc = "again"]

\* Lines 316-340: the top of a loop iteration, up to the prompt.
loop_top(s) ==
    IF IsBlackjack(s.first_move, s.hand) THEN blackjack(s)
    ELSE [s EXCEPT !.pc = "turn"]

\* Lines 333-338: the choices offered at the prompt.
choices(s) ==
    << "stand", "hit", "double down" >> \o
    ( IF /\ Len(s.hand) = 2
         /\ s.split_hand = None
         /\ s.hand[1].rank = s.hand[2].rank
      THEN << "split" >> ELSE << >> )

Offered(s) == {choices(s)[i] : i \in 1 .. Len(choices(s))}

\* prompt_choice returning choice c.
choose(s, c) == [s EXCEPT !.chosen = Append(@, c)]

\* Lines 344-346: the extra card and stake of a double down.
double_down(s, c) ==
    LET s1 == deal_you(s, c)
        more == remove_chips(s1.chips_player, s1.player_bet)
    IN  [s1 EXCEPT
           !.chips_player = more.chips,
           !.player_bet_chips = AddChips(@, more.new_stack),
           !.player_bet = @ * 2]

\* Lines 349-374: the hand is compared with the dealer's and settled.
settle(s) ==
    LET dealer_hand_value == hand_value(s.dealer_hand)
        player_hand_value == hand_value(s.hand)
        win == remove_chips(s.chips_dealer, s.player_bet)
    IN  IF dealer_hand_value = player_hand_value
        THEN [s EXCEPT
                !.chips_player = AddChips(@, s.player_bet_chips),
                !.results = Append(@, Result(s, "push",
                               Total(s.player_bet_chips), 0))]
        ELSE IF player_hand_value > dealer_hand_value
        THEN [s EXCEPT
                !.chips_dealer = win.chips,
                !.chips_player =
                    AddChips(@, AddChips(s.player_bet_chips, win.new_stack)),
                !.results = Append(@, Result(s, "win",
                               Total(s.player_bet_chips),
                               Total(win.new_stack)))]
        ELSE [s EXCEPT !.results = Append(@, Result(s, "lose", 0, 0))]

\* Lines 380-384: a hit that busts finishes the hand with nothing moved.
busted(s) == [s EXCEPT !.results = Append(@, Result(s, "bust", 0, 0))]

\* Lines 386-390: the second card becomes the split hand and a stake is
\* removed from the player's stack (the removed chips are not kept).
split_off(s) ==
    LET second_card == s.hand[2]
    IN  [s EXCEPT !.hand = << s.hand[1] >>,
                  !.split_hand = << second_card >>,
                  !.chips_player = remove_chips(@, s.player_bet).chips]

\* Lines 386-392: split_off, then a card is dealt.
split(s, c) == deal_you(split_off(s), c)

\* Lines 399-400: the split hand becomes the hand in play.
switch(s) == [s EXCEPT !.hand = s.split_hand, !.split_hand = None]

\* Lines 76-79: a pop from the empty deck raises, which ends the program.
crash(s) == [s EXCEPT !.pc = "crash"]

\* The number of cards lines 394-407 pop: the one dealt at the switch to the
\* split hand.
popped(s, game_done) ==
    IF game_done /\ s.split_hand # None /\ s.deck # {} THEN 1 ELSE 0

\* Lines 394-407: the end of a loop iteration and the top of the next one,
\* up to the next prompt; top holds the card popped at the switch to the
\* split hand, when there is one.
finish(s, game_done, top) ==
    IF game_done
    THEN IF s.split_hand # None
         THEN IF s.deck = {} THEN crash(switch(s))
              ELSE loop_top([deal_you(switch(s), top[1])
                             EXCEPT !.first_move = FALSE])
         ELSE [s EXCEPT !.pc = "again"]
    ELSE loop_top([s EXCEPT !.first_move = FALSE])

\* The step ends by finish, which pops exactly the cards of top; at is the
\* state s that finish starts from.
Ends(s, game_done, top) ==
    \E at \in {s} :
        /\ Len(top) = popped(at, game_done)
        /\ OnTop(at.deck, top)
        /\ Becomes(finish(at, game_done, top))

---------------------------------------------------------------------------
(* Actions *)

\* new_game without the reset of the two hands (lines 285-286).
new_game_hands_kept(s, cards) ==
    [s EXCEPT !.pc = "bet", !.first_move = TRUE, !.deck = cards,
              !.player_bet = 0, !.player_bet_chips = NoChips,
              !.placed_bet = 0, !.chosen = << >>, !.results = << >>,
              !.dealt = << >>,
              !.shown = [player |-> Total(s.chips_player),
                         dealer |-> Total(s.chips_dealer)]]

\* Lines 283-297: the start of game(), up to the bet prompt.
new_game(s, cards) ==
    [s EXCEPT !.pc = "bet", !.first_move = TRUE,
              !.hand = << >>, !.dealer_hand = << >>, !.deck = cards,
              !.player_bet = 0, !.player_bet_chips = NoChips,
              !.placed_bet = 0, !.chosen = << >>, !.results = << >>,
              !.dealt = << >>,
              !.shown = [player |-> Total(s.chips_player),
                         dealer |-> Total(s.chips_dealer)]]

\* Lines 253-278 and the first call of game() (line 409), up to its bet
\* prompt, with the deck made of the given cards: everything but the place
\* the program is at.
Table(cards) ==
    /\ round = 1
    /\ chips_player = PlayerStart
    /\ chips_dealer = DealerStart
    /\ hand = << >>
    /\ dealer_hand = << >>
    /\ split_hand = None
    /\ deck = cards
    /\ first_move = TRUE
    /\ player_bet = 0
    /\ player_bet_chips = NoChips
    /\ placed_bet = 0
    /\ shown = [player |-> Total(PlayerStart), dealer |-> Total(DealerStart)]
    /\ chosen = << >>
    /\ results = << >>
    /\ dealt = << >>

Begin(cards) ==
    /\ pc = "bet"
    /\ Table(cards)
    /\ arg = None
    /\ ret = None

Init == Begin(DeckOf(AllRanks))

\* Lines 301-314 and the top of the first loop iteration: the answer b to
\* the bet prompt.  In this and the next four actions top is the cards the
\* step pops, topmost first.
PlaceBet(b, top) ==
    /\ pc = "bet"
    /\ Len(top) = 4
    /\ OnTop(deck, top)
    /\ LET bet == remove_chips(chips_player, b)
           s1 == [Cur EXCEPT !.player_bet = b,
                             !.placed_bet = b,
                             !.player_bet_chips = bet.new_stack,
                             !.chips_player = bet.chips]
       IN  Becomes(loop_top(deal_initial(s1, top[1], top[2], top[3], top[4])))

\* Lines 340-376, 394-407: the answer 'stand'; most caps the decisions of a
\* round.
Stand(most, top) ==
    /\ pc = "turn"
    /\ Len(chosen) < most
    /\ "stand" \in Offered(Cur)
    /\ Ends(settle(choose(Cur, "stand")), TRUE, top)

\* Lines 340-376, 394-407: the answer 'double down'.
DoubleDown(most, top) ==
    /\ pc = "turn"
    /\ Len(chosen) < most
    /\ "double down" \in Offered(Cur)
    /\ IF deck = {}
       THEN top = << >> /\ Becomes(crash(choose(Cur, "double down")))
       ELSE /\ top # << >>
            /\ top[1] \in pop(deck)
            /\ Ends(settle(double_down(choose(Cur, "double down"), top[1])),
                    TRUE, Tail(top))

\* Lines 340-341, 377-384, 394-407: the answer 'hit'.
Hit(most, top) ==
    /\ pc = "turn"
    /\ Len(chosen) < most
    /\ "hit" \in Offered(Cur)
    /\ IF deck = {}
       THEN top = << >> /\ Becomes(crash(choose(Cur, "hit")))
       ELSE /\ top # << >>
            /\ top[1] \in pop(deck)
            /\ \E s1 \in {deal_you(choose(Cur, "hit"), top[1])} :
                   IF hand_value(s1.hand) > 21
                   THEN Ends(busted(s1), TRUE, Tail(top))
                   ELSE Ends(s1, FALSE, Tail(top))

\* Lines 340-341, 385-407: the answer 'split'.
Split(most, top) ==
    /\ pc = "turn"
    /\ Len(chosen) < most
    /\ "split" \in Offered(Cur)
    /\ IF deck = {}
       THEN top = << >> /\ Becomes(crash(split_off(choose(Cur, "split"))))
       ELSE /\ top # << >>
            /\ top[1] \in pop(deck)
            /\ Ends(split(choose(Cur, "split"), top[1]), FALSE, Tail(top))

\* Lines 411-415: 'play again' calls game().
PlayAgain(cards) ==
    /\ pc = "again"
    /\ round < MaxRounds
    /\ Becomes(new_game([Cur EXCEPT !.round = @ + 1], cards))

\* Lines 416-417.
Quit ==
    /\ pc = "again"
    /\ Becomes([Cur EXCEPT !.pc = "quit"])

\* The first round of a session.
Next ==
    \/ pc = "bet" /\ \E b \in Bets : \E top \in Tops(deck, 4, TopRanks) :
         PlaceBet(b, top)
    \/ pc = "turn" /\ \E top \in Shuffled(deck, TopRanks) :
         Stand(MaxDecisions, top)
    \/ pc = "turn" /\ \E top \in Shuffled(deck, TopRanks) :
         Hit(MaxDecisions, top)
    \/ pc = "turn" /\ \E top \in Shuffled(deck, TopRanks) :
         DoubleDown(MaxDecisions, top)
    \/ pc = "turn" /\ \E top \in Shuffled(deck, TopRanks) :
         Split(MaxDecisions, top)

Spec == Init /\ [][Next]_vars

\* A session of up to MaxRounds rounds.
SessionInit == Begin(DeckOf(AllRanks))

SessionNext ==
    \/ pc = "bet" /\ \E b \in SessionBets : \E top \in Tops(deck, 4, SessionTopRanks) :
         PlaceBet(b, top)
    \/ pc = "turn" /\ \E top \in Shuffled(deck, SessionTopRanks) :
         Stand(MaxDecisions, top)
    \/ pc = "turn" /\ \E top \in Shuffled(deck, SessionTopRanks) :
         Hit(MaxDecisions, top)
    \/ pc = "turn" /\ \E top \in Shuffled(deck, SessionTopRanks) :
         DoubleDown(MaxDecisions, top)
    \/ pc = "turn" /\ \E top \in Shuffled(deck, SessionTopRanks) :
         Split(MaxDecisions, top)
    \/ PlayAgain(DeckOf(AllRanks))
    \/ Quit

Session == SessionInit /\ [][SessionNext]_vars

\* One round with no cap on its decisions other than the size of the
\* program's deck, on the shuffles of RoundTop.
RoundInit == Begin(DeckOf(AllRanks))

RoundNext ==
    \/ pc = "bet" /\ \E b \in RoundBets : \E top \in RoundTops(deck, 4) :
         PlaceBet(b, top)
    \/ pc = "turn" /\ \E top \in RoundShuffled(deck) :
         Hit(DeckSize, top)
    \/ pc = "turn" /\ \E top \in RoundShuffled(deck) :
         Stand(DeckSize, top)
    \/ pc = "turn" /\ \E top \in RoundShuffled(deck) :
         DoubleDown(DeckSize, top)
    \/ pc = "turn" /\ \E top \in RoundShuffled(deck) :
         Split(DeckSize, top)

Round == RoundInit /\ [][RoundNext]_vars

\* Round with every prompt answered: input() (line 207) blocks until the
\* player answers, prompt_number asks again until the answer is one of those
\* offered, and the player goes on answering; so a step of the round is
\* taken whenever one stays possible.
RoundAnswered == Round /\ WF_vars(RoundNext)

\* hand_value called on its own, on every hand of up to MaxHandLen cards of
\* the program's deck.  A hand is drawn as its sequence of ranks; the k-th
\* card of a rank is given suit k - 1.
RankSeqs(n) == UNION {[1 .. k -> AllRanks] : k \in 0 .. n}

CardsOf(rs) ==
    [i \in 1 .. Len(rs) |->
        Card(rs[i], Cardinality({j \in 1 .. (i - 1) : rs[j] = rs[i]}))]

HandsUpTo(n) ==
    {CardsOf(rs) : rs \in {q \in RankSeqs(n) :
        \A r \in AllRanks :
            Cardinality({j \in 1 .. Len(q) : q[j] = r}) <= NumSuits}}

ValuesInit ==
    /\ pc = "value"
    /\ Table(DeckOf(AllRanks))
    /\ arg \in HandsUpTo(MaxHandLen)
    /\ ret = None

\* player.hand_value with player.hand = arg.
CallHandValue ==
    /\ pc = "value"
    /\ pc' = "valued"
    /\ ret' = hand_value(arg)
    /\ UNCHANGED <<round, chips_player, chips_dealer, hand, dealer_hand,
                   split_hand, deck, first_move, player_bet,
                   player_bet_chips, placed_bet, shown, chosen, results,
                   dealt, arg>>

ValuesNext == CallHandValue

Values == ValuesInit /\ [][ValuesNext]_vars

\* remove_chips called on its own.  The stacks hold up to MaxChips chips of
\* value 1 and of value 5, up to four of value 25 (which make a chip of 100)
\* and up to one of each larger value; the amounts are the totals of the
\* sub-stacks of the stack, and those totals plus 2.
StackCap(d) == CASE d \in {1, 5} -> MaxChips [] d = 25 -> 4 [] OTHER -> 1

Stacks == {l \in [Denoms -> 0 .. MaxChips] : \A d \in Denoms : l[d] <= StackCap(d)}

SubTotals(l) ==
    {a * 1000 + b * 500 + c * 100 + d * 25 + e * 5 + f :
        a \in 0 .. l[1000], b \in 0 .. l[500], c \in 0 .. l[100],
        d \in 0 .. l[25], e \in 0 .. l[5], f \in 0 .. l[1]}

RemovalsInit ==
    /\ pc = "remove"
    /\ Table(DeckOf(AllRanks))
    /\ \E l \in Stacks : \E a \in SubTotals(l) : \E more \in {0, 2} :
         arg = [chips |-> l, amount |-> a + more]
    /\ ret = None

\* self.remove_chips(amount) with self.chips = arg.chips, amount = arg.amount.
CallRemoveChips ==
    /\ pc = "remove"
    /\ pc' = "removed"
    /\ ret' = remove_chips(arg.chips, arg.amount)
    /\ UNCHANGED <<round, chips_player, chips_dealer, hand, dealer_hand,
                   split_hand, deck, first_move, player_bet,
                   player_bet_chips, placed_bet, shown, chosen, results,
                   dealt, arg>>

RemovalsNext == CallRemoveChips

Removals == RemovalsInit /\ [][RemovalsNext]_vars

---------------------------------------------------------------------------
(* Claims *)

Hands == 1 .. Len(results)

Chose(c) == \E i \in 1 .. Len(chosen) : chosen[i] = c

\* C1: a hand whose value exceeds 21 when it is finished, by a hit or by the
\* card of a double down, is never paid: none of its stake goes back to the
\* player and nothing is taken from the dealer for it.
C1_BustedNeverPaid ==
    \A i \in Hands :
        results[i].pv > 21 => results[i].returned = 0 /\ results[i].paid = 0

\* C2: once the bet is placed (and before any decision changes the stake) the
\* chips set aside from the player's stack are worth exactly the bet.
C2_EscrowEqualsBet ==
    (pc \in {"turn", "again"} /\ chosen = << >>)
        => Total(player_bet_chips) = placed_bet

\* C3: at a decision prompt, double down is offered only when the active hand
\* has exactly two cards and no double down was made earlier in the round.
C3_DoubleDownOffered ==
    (pc = "turn" /\ "double down" \in Offered(Cur))
        => Len(hand) = 2 /\ ~ Chose("double down")

\* C4: at a decision prompt, split is offered only when the active hand has
\* exactly two cards of equal rank and no split was made earlier in the round.
C4_SplitOffered ==
    (pc = "turn" /\ "split" \in Offered(Cur))
        => /\ Len(hand) = 2
           /\ hand[1].rank = hand[2].rank
           /\ ~ Chose("split")

\* C5: after a split, a later hand that is not itself doubled is settled on
\* the original bet whatever was decided on the first hand: the amount the
\* dealer is asked to match is the placed bet and the stake at risk for it is
\* no more than the placed bet.
C5_SecondHandOwnStake ==
    \A i \in Hands :
        (i >= 2 /\ ~ results[i].doubled)
            => results[i].bet = placed_bet /\ results[i].escrow <= placed_bet

\* C6: a hand settled as a win with a value of at most 21 is paid 1:1: its
\* escrowed stake goes back to the player and the dealer gives chips worth
\* exactly that stake.
C6_WinPaidOneToOne ==
    \A i \in Hands :
        (results[i].outcome = "win" /\ results[i].pv <= 21)
            => /\ results[i].returned = results[i].escrow
               /\ results[i].paid = results[i].escrow

\* C7: when every hand of a finished round was a push, the player's stack is
\* worth what it was before the bet and the dealer's stack is unchanged.
C7_PushNoGainNoLoss ==
    (/\ pc = "again"
     /\ results # << >>
     /\ \A i \in Hands : results[i].outcome = "push")
        => /\ Total(chips_player) = shown.player
           /\ Total(chips_dealer) = shown.dealer

ThreeHalvesUp(b) == (3 * b + 1) \div 2

\* C8: after a natural blackjack on bet b the player's stack is worth
\* ceil(3b/2) more than before the bet and the dealer's ceil(3b/2) less.
C8_BlackjackThreeToTwo ==
    (/\ pc = "again"
     /\ Len(results) = 1
     /\ results[1].outcome = "blackjack")
        => /\ Total(chips_player) = shown.player + ThreeHalvesUp(placed_bet)
           /\ Total(chips_dealer) = shown.dealer - ThreeHalvesUp(placed_bet)

\* The hand dealt at the start of the round is worth 21 and nothing has been
\* decided yet.
Natural == chosen = << >> /\ Len(hand) = 2 /\ hand_value(hand) = 21

\* C9: the blackjack payout and the immediate end of the round happen exactly
\* when the two cards first dealt are worth 21, before any decision; every
\* hand finished after a decision (a 21 reached by a hit, a two-card 21 after
\* a split) is settled by the ordinary rules, the dealer giving at most the
\* bet.
C9_NaturalOnlyOnFirstMove ==
    pc \in {"turn", "again", "quit"} =>
        /\ Natural <=> (\E i \in Hands : results[i].outcome = "blackjack")
        /\ Natural => pc # "turn" /\ Len(results) = 1 /\ first_move
        /\ \A i \in Hands :
               results[i].outcome # "blackjack"
                   => /\ chosen # << >>
                      /\ results[i].paid <= results[i].bet

\* C9 witness: after a split a two-card hand worth 21 was finished and won
\* by the ordinary rule.
C9_Witness ==
    /\ Chose("split")
    /\ \E i \in Hands :
           /\ results[i].pv = 21
           /\ Len(results[i].hand) = 2
           /\ results[i].outcome = "win"
           /\ results[i].paid = results[i].bet

\* C10: a double down deals exactly one card into the active hand, brings
\* the escrowed stake to exactly twice the placed bet, and finishes the hand
\* at once: the round is over or the split hand has become the active hand.
C10_DoubleDown ==
    [][ (pc = "turn" /\ chosen' = Append(chosen, "double down"))
          => /\ Len(results') = Len(results) + 1
             /\ LET r == results'[Len(results')]
                IN  /\ r.doubled
                    /\ \E c \in deck : r.hand = Append(hand, c)
                    /\ r.escrow = 2 * placed_bet
             /\ \/ pc' = "again"
                \/ /\ split_hand # None
                   /\ Len(hand') = 2
                   /\ hand'[1] = split_hand[1] ]_vars

\* C11: a split makes the second card of the hand the only card of the new
\* second hand, deals one card to the first hand, and takes a further stake
\* equal to the original bet from the player's stack into escrow, so that
\* the escrow then holds twice the original bet.
C11_SplitStakeEscrowed ==
    [][ (pc = "turn" /\ chosen' = Append(chosen, "split"))
          => /\ split_hand' = << hand[2] >>
             /\ \E c \in deck : hand' = << hand[1], c >>
             /\ Total(chips_player') = Total(chips_player) - placed_bet
             /\ Total(player_bet_chips') = 2 * placed_bet ]_vars

\* C12: after a split, when the first hand is finished (stand, double down
\* or bust) the pending split hand becomes the hand in play with exactly one
\* more card and is played from a prompt of its own; the round is never over
\* while a split hand is pending, and it is over once the second hand is
\* finished.
C12_SplitHandPlayedThenDone ==
    [][ (pc = "turn" /\ pc' # "crash" /\ Len(results') = Len(results) + 1)
          => /\ split_hand # None
                  => /\ pc' = "turn"
                     /\ split_hand' = None
                     /\ \E c \in deck : hand' = Append(split_hand, c)
             /\ split_hand = None => pc' = "again"
             /\ pc' = "again" => split_hand' = None
             /\ (Chose("split") /\ Len(results') = 2) => pc' = "again" ]_vars

\* The value the claim gives a card added to a hand of running total total.
CardPoints(total, c) ==
    IF c.rank \in {9, 10, 11} THEN 10
    ELSE IF c.rank = 12 THEN (IF total + 11 <= 21 THEN 11 ELSE 1)
    ELSE c.rank + 2

RECURSIVE FoldLeft(_, _, _)
FoldLeft(h, i, total) ==
    IF i > Len(h) THEN total
    ELSE FoldLeft(h, i + 1, total + CardPoints(total, h[i]))

RanksOf(h) == [i \in 1 .. Len(h) |-> h[i].rank]

\* C13: hand_value is the left-to-right fold of the hand in which a jack,
\* queen or king adds 10, a numeric card its number (rank + 2), and an Ace
\* 11 if the running total plus 11 is at most 21 and 1 otherwise; so two
\* Aces are worth 12 and Ace, 9 is worth 20.
C13_HandValueIsFold ==
    pc = "valued" =>
        /\ ret = FoldLeft(arg, 1, 0)
        /\ RanksOf(arg) = << 12, 12 >> => ret = 12
        /\ RanksOf(arg) = << 12, 7 >> => ret = 20

C13_Witness ==
    /\ pc = "valued"
    /\ RanksOf(arg) = << 11, 12, 12 >>
    /\ ret = 22

\* The points the i-th card of hand h was counted for.
CountedAs(h, i) == hand_value(SubSeq(h, 1, i)) - hand_value(SubSeq(h, 1, i - 1))

\* C14 as stated: an Ace is valued 1 whenever valuing it 11 would lead to a
\* bust: in no hand, whatever the order of its cards, is an Ace counted as
\* 11 while the value reported for the hand exceeds 21.
C14_NoAceElevenInBust ==
    pc = "valued" =>
        \A i \in 1 .. Len(arg) :
            (arg[i].rank = 12 /\ CountedAs(arg, i) = 11) => ret <= 21


\* C14, amended: an Ace is valued 1 exactly when the cards before it in the
\* hand already total more than 10, and 11 otherwise; the total up to and
\* including an Ace counted 11 never exceeds 21, whatever comes after it.
C14_AceOneWhenRunningTotalBusts ==
    pc = "valued" =>
        \A i \in 1 .. Len(arg) :
            arg[i].rank = 12 =>
                /\ CountedAs(arg, i) \in {1, 11}
                /\ CountedAs(arg, i) = 1
                      <=> hand_value(SubSeq(arg, 1, i - 1)) + 11 > 21
                /\ CountedAs(arg, i) = 11
                      => hand_value(SubSeq(arg, 1, i)) <= 21

C14_Witness ==
    /\ pc = "valued"
    /\ RanksOf(arg) = << 11, 10, 12 >>
    /\ ret = 21

\* Whether some chips of the stack, of the values ChipValues[i] and after,
\* total amount: a search of all sub-stacks.
RECURSIVE CanMake(_, _, _)
CanMake(chips, amount, i) ==
    IF amount = 0 THEN TRUE
    ELSE IF i > Len(ChipValues) \/ amount > TotalFrom(chips, i) THEN FALSE
    ELSE \E k \in 0 .. Min(chips[ChipValues[i]], amount \div ChipValues[i]) :
            CanMake(chips, amount - k * ChipValues[i], i + 1)

\* C15: remove_chips(amount) removes chips whose values total exactly amount
\* whenever some chips of the stack held total amount.
C15_ExactWhenPossible ==
    pc = "removed" =>
        ( CanMake(arg.chips, arg.amount, 1)
            => Total(ret.new_stack) = arg.amount )

\* Amount 35 from a stack with one chip of 25 and one of 5, where the last 5
\* comes from five chips of 1.
C15_Witness ==
    /\ pc = "removed"
    /\ arg.amount = 35
    /\ arg.chips[25] = 1 /\ arg.chips[5] = 1 /\ arg.chips[1] = 5
    /\ ret.new_stack[25] = 1 /\ ret.new_stack[5] = 1 /\ ret.new_stack[1] = 5
    /\ CanMake(arg.chips, arg.amount, 1)

\* C16: whatever the stack and the amount, the chips remove_chips returns
\* total at most amount, each of them was in the stack before the call and
\* is not after it, and the stack is then worth what it was worth less the
\* chips returned: never more than before, never less than nothing.
C16_RemovedWithinAmount ==
    pc = "removed" =>
        /\ Total(ret.new_stack) <= arg.amount
        /\ \A d \in Denoms :
              /\ 0 <= ret.new_stack[d]
              /\ ret.new_stack[d] <= arg.chips[d]
              /\ ret.chips[d] = arg.chips[d] - ret.new_stack[d]
        /\ Total(ret.chips) = Total(arg.chips) - Total(ret.new_stack)
        /\ Total(ret.chips) <= Total(arg.chips)
        /\ Total(ret.chips) >= 0

\* Amount 7 from a stack of chips of 5 only: 5 is returned.
C16_Witness ==
    /\ pc = "removed"
    /\ arg.amount = 7
    /\ arg.chips[1] = 0 /\ arg.chips[5] = 2
    /\ Total(ret.new_stack) = 5
    /\ Total(ret.chips) = Total(arg.chips) - 5
    /\ ~ CanMake(arg.chips, arg.amount, 1)

\* The cards held outside the deck, as one sequence.
Held == hand \o split_hand \o dealer_hand

\* C17: in every round the deck starts as one card of every rank and suit
\* (52 in the program) and deals without repetition: at every point the cards
\* of the player's hand, of the pending split hand, of the dealer's hand and
\* of the deck are pairwise distinct, and a card dealt never returns to the
\* deck of its round.
C17_DealtWithoutRepetition ==
    /\ Cardinality(DeckOf(AllRanks)) = 52
    /\ [](/\ pc = "bet" => deck = DeckOf(AllRanks) /\ Held = << >>
          /\ \A i, j \in 1 .. Len(Held) : Held[i] = Held[j] => i = j
          /\ \A i \in 1 .. Len(Held) : Held[i] \notin deck
          /\ \A i \in 1 .. Len(dealt) : dealt[i] \notin deck
          /\ Cardinality(deck) + Len(dealt) = 52)
    /\ [][pc' # "bet" => deck' \subseteq deck]_vars

C17_Witness ==
    /\ round = 2
    /\ pc = "turn"
    /\ split_hand # None
    /\ Len(hand) = 3
    /\ Cardinality(deck) = 52 - 6

\* C18: in every round the first four cards go to the player, the dealer,
\* the player and the dealer, into empty hands, and the dealer draws no more:
\* from the end of the initial deal to the end of the round the dealer's hand
\* is the 2nd and the 4th card dealt, whatever the player decides.
C18_DealerHandFixed ==
    /\ pc = "bet" => hand = << >> /\ dealer_hand = << >> /\ dealt = << >>
    /\ pc \in {"turn", "again", "quit"} =>
          /\ Len(dealt) >= 4
          /\ dealer_hand = << dealt[2], dealt[4] >>
          /\ chosen = << >> => hand = << dealt[1], dealt[3] >>

C18_Witness ==
    /\ round = 2
    /\ pc = "again"
    /\ Len(chosen) = 3
    /\ Len(dealt) = 8
    /\ dealer_hand = << dealt[2], dealt[4] >>

\* C19: chips are never created: the player's and the dealer's stacks
\* together are never worth more than at the start (500 + 3000), and what
\* the player gains in a round the dealer's stack loses, or more.
C19_ChipsNeverCreated ==
    /\ Total(chips_player) + Total(chips_dealer)
          <= Total(PlayerStart) + Total(DealerStart)
    /\ pc = "again" =>
          Total(chips_player) - shown.player
              <= shown.dealer - Total(chips_dealer)

\* The hands of the round begun so far: those finished, the one in play and
\* the one pending after a split.
HandsBegun ==
    Len(results) + (IF pc = "turn" THEN 1 ELSE 0)
                 + (IF split_hand # None THEN 1 ELSE 0)

\* A round is held up nowhere but at the prompt between rounds: at the bet
\* prompt and at every decision prompt a step of the round can be taken,
\* the shuffles followed have the cards a decision pops (at most two) and
\* the cap on the decisions is not met.
NeverHeldUp ==
    /\ pc \in {"bet", "turn"} <=> ENABLED << RoundNext >>_vars
    /\ pc = "turn" => /\ Len(chosen) < DeckSize
                      /\ RoundTops(deck, 2) # {}

\* C20: every round runs to completion.  With every prompt answered the
\* round reaches the prompt between rounds (pc = "again"), whatever the
\* cards and the answers.  On the way no card is asked of an empty deck;
\* the hand in play is worth at most 21 and holds at most 11 cards (12 with
\* the card that busts it); the round begins at most NumSuits hands and
\* pops at most 2 cards for the dealer and 12 for each hand begun, which is
\* fewer than the deck holds, so the deck is never empty at a prompt; a
\* round has at most as many decisions as cards dealt after the first
\* three; at every prompt 'stand' and 'hit' are offered and the round is
\* not held up.  Each hit that leaves the hand in play strictly
\* raises its value, a hit that takes it over 21 finishes the hand, and
\* every decision either ends the round or takes a card from the deck.
C20_RoundRunsToCompletion ==
    /\ <>(pc = "again")
    /\ [](/\ pc # "crash"
          /\ pc = "turn" => hand_value(hand) <= 21
          /\ pc = "turn" => Len(hand) <= 11
          /\ Len(hand) <= 12
          /\ HandsBegun <= NumSuits
          /\ Len(dealt) <= 2 + 12 * HandsBegun
          /\ 2 + 12 * NumSuits < DeckSize
          /\ Cardinality(deck) = DeckSize - Len(dealt)
          /\ pc = "turn" => deck # {}
          /\ pc \in {"turn", "again"} => Len(chosen) + 3 <= Len(dealt)
          /\ pc = "turn" => {"stand", "hit"} \subseteq Offered(Cur)
          /\ NeverHeldUp)
    /\ [][ (pc = "turn" /\ chosen' = Append(chosen, "hit"))
             => IF Len(results') = Len(results)
                THEN /\ pc' = "turn"
                     /\ hand_value(hand') > hand_value(hand)
                ELSE /\ results'[Len(results')].outcome = "bust"
                     /\ results'[Len(results')].pv > 21
                     /\ pc' = "again" \/ split_hand # None ]_vars
    /\ [][ (pc = "turn" /\ Len(chosen') = Len(chosen) + 1)
             => pc' = "again" \/ Len(dealt') > Len(dealt) ]_vars

\* A round of four hands run to its end with at least 16 cards dealt: the
\* last hand was hit until it went bust and holds at least seven cards.
C20_Witness ==
    /\ pc = "again"
    /\ Len(results) = NumSuits
    /\ results[NumSuits].outcome = "bust"
    /\ Len(results[NumSuits].hand) >= 7
    /\ Len(dealt) >= 16

===========================================================================
